---- MODULE Spec2Model ----
(***************************************************************************)
(* Model of cl.py (sub-checker): the validation pipeline of main() and the *)
(* per-entry probe check_one_proxy() with its helpers.                     *)
(*                                                                         *)
(* Two specifications share the variables:                                 *)
(*   Spec       one run of main(): parse, dedup, Xray batches, Hysteria    *)
(*              group, output file.                                        *)
(*   SpecProbe  one call of check_one_proxy() on a drawn entry, toggles    *)
(*              and network responses.                                     *)
(***************************************************************************)
EXTENDS Integers, Sequences, FiniteSets, TLC

\* ------------------------------------------------------------------------
\* Bounds of the model
\* ------------------------------------------------------------------------
\* longest input file (lines of normal.txt)
MaxLines == 3
\* entries per Xray batch; 50 in cl.py:286, scaled down
BATCH_SIZE == 2
\* rounds of the readiness poller; range(40) in cl.py:323, scaled down
PollBudget == 2
\* size of the probing pool; 10 in cl.py:32, scaled down
MAX_WORKERS == 2
\* how many times in a row one descriptor is retagged
MaxRetags == 2

\* ------------------------------------------------------------------------
\* Program constants
\* ------------------------------------------------------------------------
base_port_start == 20800

CHECK_LOC == TRUE

CHECK_IRAN == TRUE

CHECK_HOST_IRANIAN_NODES == <<"ir1", "ir2", "ir3">>

XrayProtocols == {"vless", "vmess", "trojan", "ss", "socks", "mvless"}

HysteriaProtocols == {"hysteria", "hysteria2", "hy2"}

\* ------------------------------------------------------------------------
\* Descriptors.  A descriptor string  scheme://body[#]tag  is a record:
\*   hash  whether a '#' separates body and tag
\*   tag   the characters after the body (after '#' when hash); for a
\*         decodable vmess payload (enc = "b64") the "ps" field inside it
\*   enc   "none" plain, "b64" decodable base64-JSON payload, "bad" a
\*         vmess payload that does not decode
\* ------------------------------------------------------------------------
NoneUri == [scheme |-> "None", body |-> "", hash |-> FALSE, tag |-> <<>>, enc |-> "none"]

Uri(s, b, h, t, e) == [scheme |-> s, body |-> b, hash |-> h, tag |-> t, enc |-> e]

\* the lines an input file is made of
UriA == Uri("vless", "id@h1:443", TRUE, <<"A">>, "none")

UriADup == Uri("vless", "id@h1:443", TRUE, <<"B", " ">>, "none")

UriVmess == Uri("vmess", "h2", FALSE, <<"C">>, "b64")

UriTrojanNoOutbound == Uri("trojan", "pw@nobuild:443", TRUE, <<"A">>, "none")

UriHy2 == Uri("hysteria2", "hp@h4:443", TRUE, <<"A">>, "none")

UriHy2b == Uri("hy2", "hp@h5:443", TRUE, <<"B">>, "none")

UriHy1 == Uri("hysteria", "hp@h7:443", FALSE, <<>>, "none")

UriWg == Uri("wireguard", "key@h6:51820", TRUE, <<"A">>, "none")

UriGarbage == Uri("garbage", "", FALSE, <<>>, "none")

InputLines == {UriA, UriADup, UriVmess, UriTrojanNoOutbound,
               UriHy2, UriHy2b, UriHy1, UriWg, UriGarbage}

\* descriptors only the probe specification draws (tag forms of retagging)
UriSS == Uri("ss", "pw@h3:443", FALSE, <<>>, "none")

UriTagged == Uri("vless", "id@h1:443", TRUE, <<"A", ":", ":", "D", "E">>, "none")

UriVmessBad == Uri("vmess", "h2", FALSE, <<>>, "bad")

ProbeUris == {UriA, UriADup, UriVmess, UriSS, UriTagged, UriVmessBad}

\* ------------------------------------------------------------------------
\* String helpers of get_ip_details_and_retag
\* ------------------------------------------------------------------------
UpperChar(c) == CASE c = "f" -> "F" [] c = "r" -> "R" [] OTHER -> c

Upper(s) == [k \in 1..Len(s) |-> UpperChar(s[k])]

IsAZ(c) == c \in {"A", "B", "C", "D", "E", "F", "R", "X"}

RECURSIVE RStrip(_)
RStrip(s) == IF s # <<>> /\ s[Len(s)] = " " THEN RStrip(SubSeq(s, 1, Len(s) - 1)) ELSE s

RECURSIVE LStrip(_)
LStrip(s) == IF s # <<>> /\ s[1] = " " THEN LStrip(Tail(s)) ELSE s

Strip(s) == LStrip(RStrip(s))

\* re.sub(r'::[A-Z]{2}$', '', tag)
StripCountrySuffix(tag) ==
    LET n == Len(tag) IN
    IF n >= 4 /\ tag[n - 3] = ":" /\ tag[n - 2] = ":" /\ IsAZ(tag[n - 1]) /\ IsAZ(tag[n])
    THEN SubSeq(tag, 1, n - 4)
    ELSE tag

\* urllib.parse.quote, one character
QuoteChar(c) ==
    CASE c = ":" -> <<"%", "3", "A">>
      [] c = " " -> <<"%", "2", "0">>
      [] c = "%" -> <<"%", "2", "5">>
      [] OTHER -> <<c>>

RECURSIVE Quote(_)
Quote(s) == IF s = <<>> THEN <<>> ELSE QuoteChar(s[1]) \o Quote(Tail(s))

\* urllib.parse.unquote: one pass, an escape that is not one is left alone
RECURSIVE Unquote(_)
Unquote(s) ==
    IF s = <<>> THEN <<>>
    ELSE IF s[1] = "%" /\ Len(s) >= 3 /\ <<s[2], s[3]>> \in {<<"3", "A">>, <<"2", "0">>, <<"2", "5">>}
         THEN LET d == CASE <<s[2], s[3]>> = <<"3", "A">> -> ":"
                         [] <<s[2], s[3]>> = <<"2", "0">> -> " "
                         [] OTHER -> "%"
              IN <<d>> \o Unquote(SubSeq(s, 4, Len(s)))
         ELSE <<s[1]>> \o Unquote(Tail(s))

RECURSIVE UnquoteToFixpoint(_)
UnquoteToFixpoint(s) == LET t == Unquote(s) IN IF t = s THEN s ELSE UnquoteToFixpoint(t)

full_unquote(s) == IF \A k \in 1..Len(s) : s[k] # "%" THEN s ELSE UnquoteToFixpoint(s)

\* uri.strip(): the descriptor ends with its tag characters
UriStrip(u) == IF u.enc = "b64" THEN u ELSE [u EXCEPT !.tag = RStrip(@)]

CountrySuffix(cc) == <<":", ":">> \o cc

get_ip_details_and_retag(original_uri, country_code) ==
    LET uri == UriStrip(original_uri)
        cc == Upper(country_code)
    IN IF uri.scheme = "vmess"
       THEN IF uri.enc = "b64"
            THEN [uri EXCEPT !.tag = full_unquote(@) \o CountrySuffix(cc), !.hash = FALSE]
            ELSE [uri EXCEPT !.tag = @ \o CountrySuffix(cc)]
       ELSE IF uri.hash
            THEN [uri EXCEPT !.tag = Quote(Strip(StripCountrySuffix(@)) \o CountrySuffix(cc))]
            ELSE [uri EXCEPT !.hash = TRUE, !.tag = CountrySuffix(cc)]

\* ------------------------------------------------------------------------
\* Network responses (the environment of one probe)
\* ------------------------------------------------------------------------
\* one IP-echo service: a valid IPv4 text, another text, a request error
IpEchoResp == {"ip", "bad", "exc"}

\* what one regional node's submit/poll exchange ends in
NodeResp == {"init429", "initReqExc", "initOtherExc", "initLimit", "initNotOk",
             "noReqId", "poll429", "pollReqExc", "pollOtherExc", "pollRtt",
             "pollNoRtt", "pollDeadline"}

\* the geolocation service: a country code, or a failure
GeoResp == {<<"D", "E">>, <<"f", "r">>, <<"f", "a", "i", "l">>}

GeoFail == <<"f", "a", "i", "l">>

get_public_ipv4(resps) ==
    IF \E k \in 1..Len(resps) : resps[k] = "ip" THEN "ip" ELSE "None"

fetch_country_code(geo) == IF geo = GeoFail THEN <<"X", "X">> ELSE geo

RECURSIVE CheckHostLoop_nobreak(_, _, _, _, _)
CheckHostLoop_nobreak(nodes, node_idx, accessible, any_completed, q) ==
    IF node_idx > Len(CHECK_HOST_IRANIAN_NODES)
    THEN [ret |-> IF accessible THEN "False" ELSE IF any_completed THEN "True" ELSE "None",
          queried |-> q]
    ELSE LET r == nodes[node_idx]
             q2 == Append(q, node_idx)
         IN CASE r \in {"init429", "initLimit", "poll429", "pollReqExc"} ->
                    [ret |-> "None", queried |-> q2]
              [] r \in {"initReqExc", "initOtherExc", "pollOtherExc"} ->
                    IF node_idx = 1
                    THEN [ret |-> "None", queried |-> q2]
                    ELSE CheckHostLoop_nobreak(nodes, node_idx + 1, accessible, any_completed, q2)
              [] r \in {"initNotOk", "noReqId", "pollNoRtt"} ->
                    CheckHostLoop_nobreak(nodes, node_idx + 1, accessible, TRUE, q2)
              [] r = "pollRtt" ->
                    CheckHostLoop_nobreak(nodes, node_idx + 1, TRUE, TRUE, q2)
              [] OTHER ->
                    CheckHostLoop_nobreak(nodes, node_idx + 1, accessible, any_completed, q2)

\* the loop over CHECK_HOST_IRANIAN_NODES; q is the sequence of nodes queried
RECURSIVE CheckHostLoop(_, _, _, _, _)
CheckHostLoop(nodes, node_idx, accessible, any_completed, q) ==
    IF node_idx > Len(CHECK_HOST_IRANIAN_NODES) \/ accessible
    THEN [ret |-> IF accessible THEN "False" ELSE IF any_completed THEN "True" ELSE "None",
          queried |-> q]
    ELSE LET r == nodes[node_idx]
             q2 == Append(q, node_idx)
         IN CASE r \in {"init429", "initLimit", "poll429", "pollReqExc"} ->
                    [ret |-> "None", queried |-> q2]
              [] r \in {"initReqExc", "initOtherExc", "pollOtherExc"} ->
                    IF node_idx = 1
                    THEN [ret |-> "None", queried |-> q2]
                    ELSE CheckHostLoop(nodes, node_idx + 1, accessible, any_completed, q2)
              [] r \in {"initNotOk", "noReqId", "pollNoRtt"} ->
                    CheckHostLoop(nodes, node_idx + 1, accessible, TRUE, q2)
              [] r = "pollRtt" ->
                    CheckHostLoop(nodes, node_idx + 1, TRUE, TRUE, q2)
              [] OTHER ->
                    CheckHostLoop(nodes, node_idx + 1, accessible, any_completed, q2)

is_ip_accessible_from_iran_via_check_host_noguard(ip, nodes) ==
    CheckHostLoop(nodes, 1, FALSE, FALSE, <<>>)

\* "False": reachable from the region, "True": not reachable, "None": inconclusive
is_ip_accessible_from_iran_via_check_host(ip, nodes) ==
    IF ip = "None"
    THEN [ret |-> "True", queried |-> <<>>]
    ELSE CheckHostLoop(nodes, 1, FALSE, FALSE, <<>>)

Env(c, ips, ns, g) == [conn |-> c, ipify |-> ips, nodes |-> ns, geo |-> g]

\* steps: the network steps made, in order; iran_res: the regional check's
\* answer ("skipped" when the check is not made)
ProbeOut(r, st, ip, ir, q) ==
    [result |-> r, steps |-> st, exit_ip |-> ip, iran_res |-> ir, queried |-> q]

check_one_proxy_inverted(item, check_loc_enabled, check_iran_enabled, env) ==
    IF ~env.conn
    THEN ProbeOut(NoneUri, <<"get">>, "None", "skipped", <<>>)
    ELSE LET exit_ip == get_public_ipv4(env.ipify)
             ch == IF check_iran_enabled
                   THEN is_ip_accessible_from_iran_via_check_host(exit_ip, env.nodes)
                   ELSE [ret |-> "skipped", queried |-> <<>>]
             st == IF check_iran_enabled THEN <<"get", "ip", "iran">> ELSE <<"get", "ip">>
         IN IF ch.ret = "True"
            THEN ProbeOut(NoneUri, st, exit_ip, ch.ret, ch.queried)
            ELSE IF check_loc_enabled
                 THEN ProbeOut(get_ip_details_and_retag(item.original_uri, fetch_country_code(env.geo)),
                               Append(st, "geo"), exit_ip, ch.ret, ch.queried)
                 ELSE ProbeOut(item.original_uri, st, exit_ip, ch.ret, ch.queried)

check_one_proxy_failclosed(item, check_loc_enabled, check_iran_enabled, env) ==
    IF ~env.conn
    THEN ProbeOut(NoneUri, <<"get">>, "None", "skipped", <<>>)
    ELSE LET exit_ip == get_public_ipv4(env.ipify)
             ch == IF check_iran_enabled
                   THEN is_ip_accessible_from_iran_via_check_host(exit_ip, env.nodes)
                   ELSE [ret |-> "skipped", queried |-> <<>>]
             st == IF check_iran_enabled THEN <<"get", "ip", "iran">> ELSE <<"get", "ip">>
         IN IF ch.ret \in {"False", "None"}
            THEN ProbeOut(NoneUri, st, exit_ip, ch.ret, ch.queried)
            ELSE IF check_loc_enabled
                 THEN ProbeOut(get_ip_details_and_retag(item.original_uri, fetch_country_code(env.geo)),
                               Append(st, "geo"), exit_ip, ch.ret, ch.queried)
                 ELSE ProbeOut(item.original_uri, st, exit_ip, ch.ret, ch.queried)

check_one_proxy_alwaystag(item, check_loc_enabled, check_iran_enabled, env) ==
    IF ~env.conn
    THEN ProbeOut(NoneUri, <<"get">>, "None", "skipped", <<>>)
    ELSE LET exit_ip == get_public_ipv4(env.ipify)
             ch == IF check_iran_enabled
                   THEN is_ip_accessible_from_iran_via_check_host(exit_ip, env.nodes)
                   ELSE [ret |-> "skipped", queried |-> <<>>]
             st == IF check_iran_enabled THEN <<"get", "ip", "iran">> ELSE <<"get", "ip">>
         IN IF ch.ret = "False"
            THEN ProbeOut(NoneUri, st, exit_ip, ch.ret, ch.queried)
            ELSE ProbeOut(get_ip_details_and_retag(item.original_uri, fetch_country_code(env.geo)),
                          Append(st, "geo"), exit_ip, ch.ret, ch.queried)

check_one_proxy_geofirst(item, check_loc_enabled, check_iran_enabled, env) ==
    IF ~env.conn
    THEN ProbeOut(NoneUri, <<"get">>, "None", "skipped", <<>>)
    ELSE LET exit_ip == get_public_ipv4(env.ipify)
             ch == IF check_iran_enabled
                   THEN is_ip_accessible_from_iran_via_check_host(exit_ip, env.nodes)
                   ELSE [ret |-> "skipped", queried |-> <<>>]
             st == <<"get", "ip">> \o (IF check_loc_enabled THEN <<"geo">> ELSE <<>>)
                      \o (IF check_iran_enabled THEN <<"iran">> ELSE <<>>)
         IN IF ch.ret = "False"
            THEN ProbeOut(NoneUri, st, exit_ip, ch.ret, ch.queried)
            ELSE IF check_loc_enabled
                 THEN ProbeOut(get_ip_details_and_retag(item.original_uri, fetch_country_code(env.geo)),
                               st, exit_ip, ch.ret, ch.queried)
                 ELSE ProbeOut(item.original_uri, st, exit_ip, ch.ret, ch.queried)

check_one_proxy(item, check_loc_enabled, check_iran_enabled, env) ==
    IF ~env.conn
    THEN ProbeOut(NoneUri, <<"get">>, "None", "skipped", <<>>)
    ELSE LET exit_ip == get_public_ipv4(env.ipify)
             ch == IF check_iran_enabled
                   THEN is_ip_accessible_from_iran_via_check_host(exit_ip, env.nodes)
                   ELSE [ret |-> "skipped", queried |-> <<>>]
             st == IF check_iran_enabled THEN <<"get", "ip", "iran">> ELSE <<"get", "ip">>
         IN IF ch.ret = "False"
            THEN ProbeOut(NoneUri, st, exit_ip, ch.ret, ch.queried)
            ELSE IF check_loc_enabled
                 THEN ProbeOut(get_ip_details_and_retag(item.original_uri, fetch_country_code(env.geo)),
                               Append(st, "geo"), exit_ip, ch.ret, ch.queried)
                 ELSE ProbeOut(item.original_uri, st, exit_ip, ch.ret, ch.queried)


\* ------------------------------------------------------------------------
\* Parsing, identity and deduplication (main, lines 245-260)
\* ------------------------------------------------------------------------
\* parse_uri of python_v2ray: None for a line it cannot parse
Parses(u) == u.scheme # "garbage"

ParseUri(u) ==
    [protocol |-> u.scheme, address |-> u.body, port |-> 443,
     id |-> IF u.scheme \in {"vless", "vmess"} THEN "id" ELSE "",
     password |-> IF u.scheme \in {"trojan", "ss"} THEN "pw" ELSE "",
     hy2_password |-> IF u.scheme \in HysteriaProtocols THEN "hp" ELSE "",
     wg_secret_key |-> IF u.scheme = "wireguard" THEN "key" ELSE "",
     display_tag |-> u.tag]

\* local_port 0: the item has no 'local_port' yet
Item(p, u) == [params |-> p, original_uri |-> u, local_port |-> 0]

Key(p) == <<p.protocol, p.address, p.port, p.id, p.password, p.hy2_password, p.wg_secret_key>>

RECURSIVE ParseAll_aborts(_)
ParseAll_aborts(lines) ==
    IF lines = <<>> \/ ~Parses(lines[1]) THEN <<>>
    ELSE <<Item(ParseUri(lines[1]), lines[1])>> \o ParseAll_aborts(Tail(lines))

RECURSIVE ParseAll(_)
ParseAll(lines) ==
    IF lines = <<>> THEN <<>>
    ELSE (IF Parses(lines[1]) THEN <<Item(ParseUri(lines[1]), lines[1])>> ELSE <<>>)
         \o ParseAll(Tail(lines))

HasKey(acc, k) == \E n \in 1..Len(acc) : Key(acc[n].params) = k

RECURSIVE DedupLoop(_, _)
DedupLoop(items, acc) ==
    IF items = <<>> THEN acc
    ELSE DedupLoop(Tail(items),
                   IF HasKey(acc, Key(items[1].params)) THEN acc ELSE Append(acc, items[1]))

\* a dict assignment made for every item: the first position, the last value
RECURSIVE DedupLoopLast(_, _)
DedupLoopLast(items, acc) ==
    IF items = <<>> THEN acc
    ELSE DedupLoopLast(Tail(items),
                       IF HasKey(acc, Key(items[1].params))
                       THEN [n \in 1..Len(acc) |->
                               IF Key(acc[n].params) = Key(items[1].params) THEN items[1] ELSE acc[n]]
                       ELSE Append(acc, items[1]))

Dedup_lastseen(items) == DedupLoopLast(items, <<>>)

Dedup(items) == DedupLoop(items, <<>>)

IsXrayItem(it) == it.params.protocol \in XrayProtocols

IsHysteriaItem(it) == it.params.protocol \in HysteriaProtocols

\* ------------------------------------------------------------------------
\* Batch synthesis (main, lines 287-312)
\* ------------------------------------------------------------------------
Min(a, b) == IF a < b THEN a ELSE b

Range(s) == {s[k] : k \in 1..Len(s)}

\* build_outbound_from_params of python_v2ray: None when no outbound can be built
CanBuildOutbound(p) == p.address # "pw@nobuild:443"

LocalPort_nooffset(batch_start, idx) == base_port_start + idx

LocalPort(batch_start, idx) == base_port_start + batch_start + idx

HysteriaPort_nobase(n_xray, idx) == base_port_start + idx

HysteriaPort(n_xray, idx) == base_port_start + n_xray + idx

BatchEnd(items, batch_start) == Min(batch_start + BATCH_SIZE, Len(items))

\* xray_items with the ports of the batch written into the retained items
WithBatchPorts(items, batch_start) ==
    [k \in 1..Len(items) |->
        IF k > batch_start /\ k <= BatchEnd(items, batch_start) /\ CanBuildOutbound(items[k].params)
        THEN [items[k] EXCEPT !.local_port = LocalPort(batch_start, k - 1 - batch_start)]
        ELSE items[k]]

ItemsToTest(items, batch_start) ==
    SelectSeq(SubSeq(WithBatchPorts(items, batch_start), batch_start + 1, BatchEnd(items, batch_start)),
              LAMBDA it : CanBuildOutbound(it.params))

PortsOf(items) == {items[k].local_port : k \in 1..Len(items)}

EmptyBuilder == [inbounds |-> <<>>, outbounds |-> <<>>, rules |-> <<>>]

BuildConfig_firstOutbound(items) ==
    [inbounds |-> [k \in 1..Len(items) |->
                     [port |-> items[k].local_port, listen |-> "127.0.0.1",
                      protocol |-> "socks", tag |-> <<"inbound", items[k].local_port>>]],
     outbounds |-> [k \in 1..Len(items) |-> [tag |-> <<"proxy_out", items[k].local_port>>]],
     rules |-> [k \in 1..Len(items) |->
                  [inboundTag |-> <<"inbound", items[k].local_port>>,
                   outboundTag |-> <<"proxy_out", items[1].local_port>>]]]

BuildConfig(items) ==
    [inbounds |-> [k \in 1..Len(items) |->
                     [port |-> items[k].local_port, listen |-> "127.0.0.1",
                      protocol |-> "socks", tag |-> <<"inbound", items[k].local_port>>]],
     outbounds |-> [k \in 1..Len(items) |-> [tag |-> <<"proxy_out", items[k].local_port>>]],
     rules |-> [k \in 1..Len(items) |->
                  [inboundTag |-> <<"inbound", items[k].local_port>>,
                   outboundTag |-> <<"proxy_out", items[k].local_port>>]]]

WithHysteriaPorts(items, n_xray) ==
    [k \in 1..Len(items) |-> [items[k] EXCEPT !.local_port = HysteriaPort(n_xray, k - 1)]]

ItemOfPort(items, port) == CHOOSE it \in Range(items) : it.local_port = port

\* ------------------------------------------------------------------------
\* Engine processes.  An Xray engine is named by the start offset of its
\* batch, a Hysteria client by its local port.
\* ------------------------------------------------------------------------
IsXrayEngine(e) == e < base_port_start

StopEngine_forgotten(procs, e) == procs

StopEngine(procs, e) == procs \ {e}


\* ------------------------------------------------------------------------
\* State
\* ------------------------------------------------------------------------
VARIABLES
    all_uris,                \* the lines of the input file
    loc, iran,               \* check_loc_enabled, check_iran_enabled
    pc,                      \* position of main()
    configs_with_uris, unique_items, xray_items, hysteria_items,
    i,                       \* start offset of the current Xray batch
    items_to_test_in_batch, expected_ports, builder,
    ready_ports, rounds,
    ports_to_check,          \* the ports the poller's last round tried (line 327)
    poll_exit,               \* how the readiness poller of the batch ended
    queued, running, done,   \* futures of the current pool, by local port
    submitted,               \* every port check_one_proxy was submitted for
    probe_log,               \* <<port, result>> of every finished probe
    final_uris_to_write,
    alive, started, stopped, \* engine processes
    hy_next,                 \* next Hysteria manager to start
    written, final_file,     \* the output file
    p_item, p_env, p_out, ppc, \* one call of check_one_proxy (SpecProbe)
    rt_orig, rt_uri, rt_codes, rtpc,  \* successive retaggings of one descriptor (SpecRetag)
    ch_ip, ch_nodes, ch_out, chpc     \* one call of the regional check (SpecCheckHost)

inputVars == <<all_uris, loc, iran>>

listVars == <<configs_with_uris, unique_items, hysteria_items>>

batchVars == <<i, items_to_test_in_batch, expected_ports, builder>>

pollVars == <<ready_ports, rounds, ports_to_check, poll_exit>>

poolVars == <<queued, running, done, submitted, probe_log, final_uris_to_write>>

engineVars == <<alive, started, stopped>>

fileVars == <<written, final_file>>

probeVars == <<p_item, p_env, p_out, ppc>>

retagVars == <<rt_orig, rt_uri, rt_codes, rtpc>>

checkHostVars == <<ch_ip, ch_nodes, ch_out, chpc>>

unitVars == <<retagVars, checkHostVars>>

vars == <<inputVars, pc, listVars, xray_items, batchVars, pollVars, poolVars,
          engineVars, hy_next, fileVars, probeVars, unitVars>>

\* sequences over S of length at most n
RECURSIVE SeqsUpTo(_, _)
SeqsUpTo(S, n) ==
    IF n = 0 THEN {<<>>}
    ELSE LET shorter == SeqsUpTo(S, n - 1)
         IN shorter \cup {Append(q, x) : q \in {r \in shorter : Len(r) = n - 1}, x \in S}

AllNodes(r) == [k \in 1..Len(CHECK_HOST_IRANIAN_NODES) |-> r]

IdleEnv == Env(FALSE, <<"exc", "exc">>, AllNodes("pollDeadline"), GeoFail)

IdleOut == ProbeOut(NoneUri, <<>>, "None", "skipped", <<>>)

\* the responses the probes of a pipeline run meet: no connection; exit IP
\* not reachable from the region; exit IP reachable from the region
PipelineEnvs ==
    {IdleEnv,
     Env(TRUE, <<"ip", "ip">>, AllNodes("pollNoRtt"), <<"D", "E">>),
     Env(TRUE, <<"ip", "ip">>, AllNodes("pollRtt"), <<"D", "E">>)}

PipelineIdle ==
    /\ configs_with_uris = <<>> /\ unique_items = <<>>
    /\ xray_items = <<>> /\ hysteria_items = <<>>
    /\ i = 0 /\ items_to_test_in_batch = <<>> /\ expected_ports = {}
    /\ builder = EmptyBuilder
    /\ ready_ports = {} /\ rounds = 0 /\ ports_to_check = {} /\ poll_exit = "none"
    /\ queued = <<>> /\ running = {} /\ done = {}
    /\ submitted = {} /\ probe_log = {} /\ final_uris_to_write = <<>>
    /\ alive = {} /\ started = {} /\ stopped = {}
    /\ hy_next = 1
    /\ written = FALSE /\ final_file = <<>>

ProbeIdle ==
    /\ p_item = Item(ParseUri(UriA), UriA) /\ p_env = IdleEnv
    /\ p_out = IdleOut /\ ppc = "idle"

RetagIdle == rt_orig = UriA /\ rt_uri = UriA /\ rt_codes = <<>> /\ rtpc = "idle"

CheckHostIdle ==
    /\ ch_ip = "None" /\ ch_nodes = AllNodes("pollDeadline")
    /\ ch_out = [ret |-> "None", queried |-> <<>>] /\ chpc = "idle"

Init ==
    /\ all_uris \in SeqsUpTo(InputLines, MaxLines)
    \* lines 410-411, no command-line override
    /\ loc = CHECK_LOC /\ iran = CHECK_IRAN
    /\ pc = "start"
    /\ PipelineIdle
    /\ ProbeIdle
    /\ RetagIdle
    /\ CheckHostIdle

\* ------------------------------------------------------------------------
\* main(): parsing, deduplication, binaries, split by engine
\* ------------------------------------------------------------------------
\* lines 245-260
ParseAndDedup ==
    /\ pc = "start"
    /\ configs_with_uris' = ParseAll(all_uris)
    /\ unique_items' = Dedup(ParseAll(all_uris))
    /\ pc' = "binaries"
    /\ UNCHANGED <<inputVars, xray_items, hysteria_items, batchVars, pollVars, poolVars,
                   engineVars, hy_next, fileVars, probeVars, unitVars>>

\* lines 263-270: the downloader fails, main returns
EnsureBinariesFails ==
    /\ pc = "binaries"
    /\ pc' = "returned"
    /\ UNCHANGED <<inputVars, listVars, xray_items, batchVars, pollVars, poolVars,
                   engineVars, hy_next, fileVars, probeVars, unitVars>>

\* lines 263-282
SplitByEngine ==
    /\ pc = "binaries"
    /\ xray_items' = SelectSeq(unique_items, IsXrayItem)
    /\ hysteria_items' = SelectSeq(unique_items, IsHysteriaItem)
    /\ final_uris_to_write' = <<>>
    /\ i' = 0
    /\ pc' = "xray"
    /\ UNCHANGED <<inputVars, configs_with_uris, unique_items, items_to_test_in_batch,
                   expected_ports, builder, pollVars, queued, running, done, submitted,
                   probe_log, engineVars, hy_next, fileVars, probeVars, unitVars>>

\* ------------------------------------------------------------------------
\* main(): the Xray batches (lines 284-357)
\* ------------------------------------------------------------------------
\* the next batch is left for: main goes on with the next offset
NextBatch == /\ i' = i + BATCH_SIZE
             /\ pc' = "xray"

\* line 284/287: no (more) Xray batch
XrayBatchesDone ==
    /\ pc = "xray"
    /\ i >= Len(xray_items)
    /\ pc' = "hysteria"
    \* the locals of the loop body are not used again
    /\ items_to_test_in_batch' = <<>> /\ expected_ports' = {} /\ builder' = EmptyBuilder
    /\ ready_ports' = {} /\ rounds' = 0 /\ ports_to_check' = {} /\ poll_exit' = "none"
    /\ queued' = <<>> /\ running' = {} /\ done' = {}
    /\ UNCHANGED <<inputVars, listVars, xray_items, i, submitted, probe_log,
                   final_uris_to_write, engineVars, hy_next, fileVars, probeVars, unitVars>>

\* lines 288-312
SynthesizeBatch ==
    /\ pc = "xray"
    /\ i < Len(xray_items)
    /\ xray_items' = WithBatchPorts(xray_items, i)
    /\ items_to_test_in_batch' = ItemsToTest(xray_items, i)
    /\ expected_ports' = PortsOf(ItemsToTest(xray_items, i))
    /\ builder' = BuildConfig(ItemsToTest(xray_items, i))
    /\ ready_ports' = {} /\ rounds' = 0 /\ ports_to_check' = {} /\ poll_exit' = "none"
    /\ IF ItemsToTest(xray_items, i) = <<>>
       THEN NextBatch
       ELSE pc' = "enter" /\ i' = i
    /\ UNCHANGED <<inputVars, listVars, poolVars, engineVars, hy_next, fileVars, probeVars, unitVars>>

\* line 315: XrayCore.__enter__ starts the engine
EnterXray ==
    /\ pc = "enter"
    /\ alive' = alive \cup {i}
    /\ started' = started \cup {i}
    /\ pc' = "sleep1"
    /\ UNCHANGED <<inputVars, listVars, xray_items, batchVars, pollVars, poolVars,
                   stopped, hy_next, fileVars, probeVars, unitVars>>

\* line 315, 354-357: XrayCore.__enter__ raises, no process is left
EnterXrayFails ==
    /\ pc = "enter"
    /\ poll_exit' = "start_failed"
    /\ NextBatch
    /\ UNCHANGED <<inputVars, listVars, xray_items, items_to_test_in_batch, expected_ports,
                   builder, ready_ports, rounds, ports_to_check, poolVars, engineVars, hy_next, fileVars,
                   probeVars, unitVars>>

\* the engine process of the batch dies
XrayCrash ==
    /\ pc \in {"sleep1", "poll", "xprobe"}
    /\ i \in alive
    /\ alive' = alive \ {i}
    /\ UNCHANGED <<inputVars, pc, listVars, xray_items, batchVars, pollVars, poolVars,
                   started, stopped, hy_next, fileVars, probeVars, unitVars>>

\* __exit__ of the with block of line 315
ExitXray ==
    /\ alive' = StopEngine(alive, i)
    /\ stopped' = stopped \cup ({i} \ StopEngine({i}, i))
    /\ started' = started

\* lines 316-322
CheckRunning ==
    /\ pc = "sleep1"
    /\ IF i \in alive
       THEN /\ ready_ports' = {} /\ rounds' = 0 /\ ports_to_check' = {} /\ poll_exit' = "none"
            /\ pc' = "poll" /\ i' = i
            /\ UNCHANGED engineVars
       ELSE /\ poll_exit' = "not_running"
            /\ ExitXray
            /\ NextBatch
            /\ UNCHANGED <<ready_ports, rounds, ports_to_check>>
    /\ UNCHANGED <<inputVars, listVars, xray_items, items_to_test_in_batch, expected_ports,
                   builder, poolVars, hy_next, fileVars, probeVars, unitVars>>

PollRound_recheck ==
    /\ pc = "poll"
    /\ rounds < PollBudget
    /\ IF i \notin alive
       THEN /\ poll_exit' = "crash_seen"
            /\ pc' = "submit"
            /\ UNCHANGED <<ready_ports, rounds, ports_to_check>>
       ELSE /\ ports_to_check' = expected_ports
            /\ \E now_ready \in SUBSET ports_to_check' :
                /\ ready_ports' = ready_ports \cup now_ready
                /\ IF ready_ports' = expected_ports
                   THEN poll_exit' = "all_ready" /\ pc' = "submit" /\ rounds' = rounds
                   ELSE poll_exit' = poll_exit /\ pc' = "poll" /\ rounds' = rounds + 1
    /\ UNCHANGED <<inputVars, listVars, xray_items, batchVars, poolVars, engineVars,
                   hy_next, fileVars, probeVars, unitVars>>

\* lines 323-337: one round of the readiness poller
PollRound ==
    /\ pc = "poll"
    /\ rounds < PollBudget
    /\ IF i \notin alive
       THEN /\ poll_exit' = "crash_seen"
            /\ pc' = "submit"
            /\ UNCHANGED <<ready_ports, rounds, ports_to_check>>
       ELSE /\ ports_to_check' = expected_ports \ ready_ports
            /\ \E now_ready \in SUBSET ports_to_check' :
                /\ ready_ports' = ready_ports \cup now_ready
                /\ IF ready_ports' = expected_ports
                   THEN poll_exit' = "all_ready" /\ pc' = "submit" /\ rounds' = rounds
                   ELSE poll_exit' = poll_exit /\ pc' = "poll" /\ rounds' = rounds + 1
    /\ UNCHANGED <<inputVars, listVars, xray_items, batchVars, poolVars, engineVars,
                   hy_next, fileVars, probeVars, unitVars>>

PollExhausted_proceeds ==
    /\ pc = "poll"
    /\ rounds = PollBudget
    /\ poll_exit' = IF i \in alive THEN "timeout" ELSE "crashed_at_end"
    /\ pc' = "submit"
    /\ UNCHANGED <<inputVars, listVars, xray_items, batchVars, ready_ports, rounds, ports_to_check, poolVars,
                   engineVars, hy_next, fileVars, probeVars, unitVars>>

\* lines 338-342, 354-357: the budget is used up, both branches raise
PollExhausted ==
    /\ pc = "poll"
    /\ rounds = PollBudget
    /\ poll_exit' = IF i \in alive THEN "timeout" ELSE "crashed_at_end"
    /\ ExitXray
    /\ NextBatch
    /\ UNCHANGED <<inputVars, listVars, xray_items, items_to_test_in_batch, expected_ports,
                   builder, ready_ports, rounds, ports_to_check, poolVars, hy_next, fileVars, probeVars, unitVars>>

SubmittedPorts_twice(items) ==
    [k \in 1..Len(items) |-> items[k].local_port] \o [k \in 1..Len(items) |-> items[k].local_port]

\* the ports line 349 (and 381) submits check_one_proxy for, in order
SubmittedPorts(items) == [k \in 1..Len(items) |-> items[k].local_port]

\* lines 344-349
SubmitXray ==
    /\ pc = "submit"
    /\ queued' = SubmittedPorts(items_to_test_in_batch)
    /\ running' = {} /\ done' = {}
    /\ submitted' = submitted \cup Range(queued')
    /\ pc' = "xprobe"
    \* the loop counter of line 323 is gone
    /\ rounds' = 0 /\ ports_to_check' = {}
    /\ UNCHANGED <<inputVars, listVars, xray_items, batchVars, ready_ports, poll_exit,
                   probe_log, final_uris_to_write, engineVars, hy_next, fileVars, probeVars, unitVars>>

\* ------------------------------------------------------------------------
\* The pool of lines 348-352 and 380-384
\* ------------------------------------------------------------------------
PoolItems == IF pc = "xprobe" THEN items_to_test_in_batch ELSE hysteria_items

EngineOf(port) == IF pc = "xprobe" THEN i ELSE port

ProbeStart_unbounded ==
    /\ pc \in {"xprobe", "hprobe"}
    /\ queued # <<>>
    /\ running' = running \cup {Head(queued)}
    /\ queued' = Tail(queued)
    /\ UNCHANGED <<inputVars, pc, listVars, xray_items, batchVars, pollVars, done, submitted,
                   probe_log, final_uris_to_write, engineVars, hy_next, fileVars, probeVars, unitVars>>

\* a free worker takes the next submitted call
ProbeStart ==
    /\ pc \in {"xprobe", "hprobe"}
    /\ queued # <<>>
    /\ Cardinality(running) < MAX_WORKERS
    /\ running' = running \cup {Head(queued)}
    /\ queued' = Tail(queued)
    /\ UNCHANGED <<inputVars, pc, listVars, xray_items, batchVars, pollVars, done, submitted,
                   probe_log, final_uris_to_write, engineVars, hy_next, fileVars, probeVars, unitVars>>

ProbeFinish_aborts(port) ==
    /\ pc \in {"xprobe", "hprobe"}
    /\ port \in running
    /\ \E env \in PipelineEnvs :
          /\ env.conn => EngineOf(port) \in alive
          /\ LET out == check_one_proxy(ItemOfPort(PoolItems, port), loc, iran, env)
             IN /\ probe_log' = probe_log \cup {<<port, out.result>>}
                /\ final_uris_to_write' =
                      IF out.result # NoneUri
                      THEN Append(final_uris_to_write, out.result)
                      ELSE final_uris_to_write
                /\ queued' = IF out.result = NoneUri THEN <<>> ELSE queued
    /\ running' = running \ {port}
    /\ done' = done \cup {port}
    /\ UNCHANGED <<inputVars, pc, listVars, xray_items, batchVars, pollVars, submitted,
                   engineVars, hy_next, fileVars, probeVars, unitVars>>

\* check_one_proxy returns; lines 350-352 collect the result
ProbeFinish(port) ==
    /\ pc \in {"xprobe", "hprobe"}
    /\ port \in running
    /\ \E env \in PipelineEnvs :
          /\ env.conn => EngineOf(port) \in alive
          /\ LET out == check_one_proxy(ItemOfPort(PoolItems, port), loc, iran, env)
             IN /\ probe_log' = probe_log \cup {<<port, out.result>>}
                /\ final_uris_to_write' =
                      IF out.result # NoneUri
                      THEN Append(final_uris_to_write, out.result)
                      ELSE final_uris_to_write
    /\ running' = running \ {port}
    /\ done' = done \cup {port}
    /\ UNCHANGED <<inputVars, pc, listVars, xray_items, batchVars, pollVars, queued, submitted,
                   engineVars, hy_next, fileVars, probeVars, unitVars>>

PoolFinished == queued = <<>> /\ running = {}

\* the with blocks of lines 348 and 315 are left
XrayBatchEnd ==
    /\ pc = "xprobe"
    /\ PoolFinished
    /\ ExitXray
    /\ NextBatch
    /\ UNCHANGED <<inputVars, listVars, xray_items, items_to_test_in_batch, expected_ports,
                   builder, pollVars, poolVars, hy_next, fileVars, probeVars, unitVars>>


\* ------------------------------------------------------------------------
\* main(): the Hysteria group (lines 359-388)
\* ------------------------------------------------------------------------
\* line 359: no Hysteria entry
HysteriaSkip ==
    /\ pc = "hysteria"
    /\ hysteria_items = <<>>
    /\ pc' = "write"
    /\ UNCHANGED <<inputVars, listVars, xray_items, batchVars, pollVars, poolVars,
                   engineVars, hy_next, fileVars, probeVars, unitVars>>

\* lines 360-371: one manager per entry
HysteriaSetup ==
    /\ pc = "hysteria"
    /\ hysteria_items # <<>>
    /\ hysteria_items' = WithHysteriaPorts(hysteria_items, Len(xray_items))
    /\ hy_next' = 1
    /\ pc' = "hy_start"
    /\ UNCHANGED <<inputVars, configs_with_uris, unique_items, xray_items, batchVars, pollVars,
                   poolVars, engineVars, fileVars, probeVars, unitVars>>

\* the finally block of lines 385-388: stop() on every manager, last first
RECURSIVE StopAll(_, _)
StopAll(procs, managers) ==
    IF managers = <<>> THEN procs
    ELSE StopAll(StopEngine(procs, managers[Len(managers)]),
                 SubSeq(managers, 1, Len(managers) - 1))

HysteriaManagers == SubmittedPorts(hysteria_items)

StopHysteria ==
    /\ alive' = StopAll(alive, HysteriaManagers)
    /\ stopped' = stopped \cup (Range(HysteriaManagers) \ StopAll(Range(HysteriaManagers), HysteriaManagers))
    /\ started' = started

\* lines 375-376: manager.start() of the next client
HysteriaStartNext ==
    /\ pc = "hy_start"
    /\ hy_next <= Len(hysteria_items)
    /\ alive' = alive \cup {hysteria_items[hy_next].local_port}
    /\ started' = started \cup {hysteria_items[hy_next].local_port}
    /\ hy_next' = hy_next + 1
    /\ UNCHANGED <<inputVars, pc, listVars, xray_items, batchVars, pollVars, poolVars,
                   stopped, fileVars, probeVars, unitVars>>

\* lines 375-376, 385-388: manager.start() raises; the finally block runs
\* and the exception leaves main()
HysteriaStartFails ==
    /\ pc = "hy_start"
    /\ hy_next <= Len(hysteria_items)
    /\ StopHysteria
    /\ pc' = "failed"
    /\ UNCHANGED <<inputVars, listVars, xray_items, batchVars, pollVars, poolVars,
                   hy_next, fileVars, probeVars, unitVars>>

\* lines 378-381
SubmitHysteria ==
    /\ pc = "hy_start"
    /\ hy_next > Len(hysteria_items)
    /\ queued' = SubmittedPorts(hysteria_items)
    /\ running' = {} /\ done' = {}
    /\ submitted' = submitted \cup Range(queued')
    /\ pc' = "hprobe"
    /\ UNCHANGED <<inputVars, listVars, xray_items, batchVars, pollVars, probe_log,
                   final_uris_to_write, engineVars, hy_next, fileVars, probeVars, unitVars>>

\* the with block of line 380 is left, then the finally block
HysteriaGroupEnd ==
    /\ pc = "hprobe"
    /\ PoolFinished
    /\ StopHysteria
    /\ pc' = "write"
    /\ UNCHANGED <<inputVars, listVars, xray_items, batchVars, pollVars, poolVars,
                   hy_next, fileVars, probeVars, unitVars>>

\* lines 390-392
WriteFile ==
    /\ pc = "write"
    /\ written' = TRUE
    /\ final_file' = final_uris_to_write
    /\ pc' = "done"
    /\ UNCHANGED <<inputVars, listVars, xray_items, batchVars, pollVars, poolVars,
                   engineVars, hy_next, probeVars, unitVars>>

AllPorts == base_port_start..(base_port_start + MaxLines)

Next ==
    \/ ParseAndDedup
    \/ EnsureBinariesFails
    \/ SplitByEngine
    \/ XrayBatchesDone
    \/ SynthesizeBatch
    \/ EnterXray
    \/ EnterXrayFails
    \/ XrayCrash
    \/ CheckRunning
    \/ PollRound
    \/ PollExhausted
    \/ SubmitXray
    \/ ProbeStart
    \/ \E port \in AllPorts : ProbeFinish(port)
    \/ XrayBatchEnd
    \/ HysteriaSkip
    \/ HysteriaSetup
    \/ HysteriaStartNext
    \/ HysteriaStartFails
    \/ SubmitHysteria
    \/ HysteriaGroupEnd
    \/ WriteFile

Spec == Init /\ [][Next]_vars

\* main() is one thread that is not suspended, and every call it waits for
\* (sleep, engine start, connect with timeout=0.25, the pooled probes with
\* their request timeouts) returns: while a step is possible one is taken
Fairness == WF_vars(Next)

\* the input lines the fair specification draws: two entries Xray can serve
\* (a batch with two ports to wait for), one it cannot build, a Hysteria
\* entry and an unparsable line
FairLines == {UriA, UriVmess, UriTrojanNoOutbound, UriHy2, UriGarbage}

InitFair ==
    /\ all_uris \in SeqsUpTo(FairLines, MaxLines)
    /\ loc = CHECK_LOC /\ iran = CHECK_IRAN
    /\ pc = "start"
    /\ PipelineIdle
    /\ ProbeIdle
    /\ RetagIdle
    /\ CheckHostIdle

SpecFair == InitFair /\ [][Next]_vars /\ Fairness

\* ------------------------------------------------------------------------
\* One call of check_one_proxy
\* ------------------------------------------------------------------------
\* the node responses the probe specification draws
ProbeNodeResp == {"init429", "initReqExc", "initNotOk", "pollRtt", "pollNoRtt", "pollDeadline"}

ProbeEnvs ==
    {Env(c, ips, ns, g) :
        c \in BOOLEAN,
        ips \in [1..2 -> IpEchoResp],
        ns \in [1..Len(CHECK_HOST_IRANIAN_NODES) -> ProbeNodeResp],
        g \in GeoResp}

InitProbe ==
    /\ all_uris = <<>>
    /\ loc \in BOOLEAN /\ iran \in BOOLEAN
    /\ pc = "idle"
    /\ PipelineIdle
    /\ p_item \in {[Item(ParseUri(u), u) EXCEPT !.local_port = base_port_start] : u \in ProbeUris}
    /\ p_env \in ProbeEnvs
    /\ p_out = IdleOut
    /\ ppc = "call"
    /\ RetagIdle
    /\ CheckHostIdle

\* lines 205-235
CallCheckOneProxy ==
    /\ ppc = "call"
    /\ p_out' = check_one_proxy(p_item, loc, iran, p_env)
    /\ ppc' = "returned"
    /\ UNCHANGED <<inputVars, pc, listVars, xray_items, batchVars, pollVars, poolVars,
                   engineVars, hy_next, fileVars, p_item, p_env, unitVars>>

NextProbe == CallCheckOneProxy

SpecProbe == InitProbe /\ [][NextProbe]_vars

\* ------------------------------------------------------------------------
\* get_ip_details_and_retag applied to its own result (a published list
\* that is checked again): every descriptor form, every country code
\* fetch_country_code can return
\* ------------------------------------------------------------------------
RetagUris == ProbeUris \cup (InputLines \ {UriGarbage})

InitRetag ==
    /\ all_uris = <<>>
    /\ loc = CHECK_LOC /\ iran = CHECK_IRAN
    /\ pc = "idle"
    /\ PipelineIdle
    /\ ProbeIdle
    /\ CheckHostIdle
    /\ rt_orig \in RetagUris
    /\ rt_uri = rt_orig
    /\ rt_codes = <<>>
    /\ rtpc = "retag"

\* line 227: the descriptor is retagged with the country code fetched
Retag ==
    /\ rtpc = "retag"
    /\ Len(rt_codes) < MaxRetags
    /\ \E g \in GeoResp :
          LET country_code == fetch_country_code(g)
          IN /\ rt_uri' = get_ip_details_and_retag(rt_uri, country_code)
             /\ rt_codes' = Append(rt_codes, country_code)
    /\ UNCHANGED <<inputVars, pc, listVars, xray_items, batchVars, pollVars, poolVars,
                   engineVars, hy_next, fileVars, probeVars, rt_orig, rtpc, checkHostVars>>

NextRetag == Retag

SpecRetag == InitRetag /\ [][NextRetag]_vars

\* ------------------------------------------------------------------------
\* One call of is_ip_accessible_from_iran_via_check_host, over every
\* combination of the nodes' responses
\* ------------------------------------------------------------------------
InitCheckHost ==
    /\ all_uris = <<>>
    /\ loc = CHECK_LOC /\ iran = CHECK_IRAN
    /\ pc = "idle"
    /\ PipelineIdle
    /\ ProbeIdle
    /\ RetagIdle
    /\ ch_ip \in {"ip", "None"}
    /\ ch_nodes \in [1..Len(CHECK_HOST_IRANIAN_NODES) -> NodeResp]
    /\ ch_out = [ret |-> "None", queried |-> <<>>]
    /\ chpc = "call"

CallCheckHost ==
    /\ chpc = "call"
    /\ ch_out' = is_ip_accessible_from_iran_via_check_host(ch_ip, ch_nodes)
    /\ chpc' = "returned"
    /\ UNCHANGED <<inputVars, pc, listVars, xray_items, batchVars, pollVars, poolVars,
                   engineVars, hy_next, fileVars, probeVars, retagVars, ch_ip, ch_nodes>>

NextCheckHost == CallCheckHost

SpecCheckHost == InitCheckHost /\ [][NextCheckHost]_vars


\* ------------------------------------------------------------------------
\* Properties of check_one_proxy (SpecProbe)
\* ------------------------------------------------------------------------
Returned == ppc = "returned"

\* the regional check's answer on the responses of this call
RegionalAnswer ==
    is_ip_accessible_from_iran_via_check_host(get_public_ipv4(p_env.ipify), p_env.nodes).ret

Retagged == get_ip_details_and_retag(p_item.original_uri, fetch_country_code(p_env.geo))

Kept == p_out.result # NoneUri

\* C1 as stated: with the regional filter on and a successful connectivity
\* probe, an entry is discarded when the regional check says the exit IP is
\* not reachable from the region ("True") and kept when it says reachable
\* ("False").
C1_DiscardUnreachable ==
    (Returned /\ iran /\ p_env.conn /\ RegionalAnswer \in {"True", "False"})
        => /\ RegionalAnswer = "True" => ~Kept
           /\ RegionalAnswer = "False" => Kept

\* C1 amended: with the regional filter on and a successful connectivity
\* probe, an entry is discarded when the regional check says the exit IP is
\* reachable from the region ("False") and kept when it says not reachable
\* ("True").
C1_DiscardReachable ==
    (Returned /\ iran /\ p_env.conn /\ RegionalAnswer \in {"True", "False"})
        => /\ RegionalAnswer = "False" => ~Kept
           /\ RegionalAnswer = "True" => Kept

C1_Witness ==
    /\ Returned /\ iran /\ p_env.conn
    /\ get_public_ipv4(p_env.ipify) = "ip"
    /\ RegionalAnswer = "False"
    /\ ~Kept

\* C8: with the regional filter on, an entry whose connectivity probe
\* succeeded and whose regional check is inconclusive ("None") is kept:
\* retagged when location-tagging is on, unchanged when it is off.
C8_InconclusiveKept ==
    (Returned /\ iran /\ p_env.conn /\ RegionalAnswer = "None")
        => /\ Kept
           /\ loc => p_out.result = Retagged
           /\ ~loc => p_out.result = p_item.original_uri

C8_Witness ==
    /\ Returned /\ iran /\ p_env.conn /\ loc
    /\ RegionalAnswer = "None"
    /\ p_out.result = Retagged
    /\ Kept

InSeq(x, q) == \E k \in 1..Len(q) : q[k] = x

\* C9: a kept entry's descriptor is the retagged one exactly when
\* location-tagging is on; with it off the original is returned and no
\* geolocation lookup is made.  With the regional filter off no regional
\* check is made and every entry whose connectivity probe succeeded is kept.
C9_RetagIffLocation ==
    Returned =>
        /\ (Kept /\ loc) => /\ p_out.result = Retagged
                            /\ p_out.result # p_item.original_uri
                            /\ InSeq("geo", p_out.steps)
        /\ (Kept /\ ~loc) => /\ p_out.result = p_item.original_uri
                             /\ ~InSeq("geo", p_out.steps)
        /\ ~iran => /\ ~InSeq("iran", p_out.steps)
                    /\ p_out.queried = <<>>
                    /\ p_env.conn => Kept

C9_Witness ==
    /\ Returned /\ ~loc /\ ~iran /\ p_env.conn
    /\ p_env.geo # GeoFail
    /\ p_out.result = p_item.original_uri

\* ------------------------------------------------------------------------
\* Properties of a run of main() (Spec)
\* ------------------------------------------------------------------------
PoolPorts == Range(queued) \cup running \cup done

\* C2 as stated: when the engine is seen not running during polling, the
\* entries submitted for probing are exactly those whose port was marked
\* ready.
C2_OnlyReadySubmitted ==
    (pc = "xprobe" /\ poll_exit = "crash_seen") => PoolPorts = ready_ports

\* C3 as stated: when the poller uses up its budget with the engine still
\* running and only some ports ready, the batch goes on to probing with the
\* ready entries.
C3_TimeoutProceeds ==
    (poll_exit = "timeout" /\ ready_ports # {})
        => (pc = "submit" \/ ready_ports \subseteq submitted)

\* C3 amended: when the poller uses up its budget with the engine still
\* running and not all ports ready, the batch is abandoned: none of its
\* entries is submitted for probing, its engine is stopped and main goes on
\* with the next batch.
C3_TimeoutAbandons ==
    poll_exit = "timeout"
        => /\ pc = "xray"
           /\ expected_ports \cap submitted = {}
           /\ (i - BATCH_SIZE) \notin alive
           /\ (i - BATCH_SIZE) \in stopped

C3_Witness ==
    /\ poll_exit = "timeout"
    /\ ready_ports # {}
    /\ ready_ports # expected_ports
    /\ pc = "xray"

RunEnded == pc \in {"done", "failed"}

\* C4 as stated: a run that reached the testing phase ends with the output
\* file written, holding every descriptor the probes returned.
C4_OutputWritten ==
    RunEnded => (written /\ final_file = final_uris_to_write)

InXrayBatch == pc \in {"enter", "sleep1", "poll", "submit", "xprobe"}

BatchOver(e) ==
    IF IsXrayEngine(e)
    THEN e < i \/ ~InXrayBatch
    ELSE pc \in {"write", "done", "failed"}

\* C5: an engine the pipeline started is stopped once the processing of its
\* batch (for a Hysteria client: of the Hysteria group) is over, and no
\* engine is running when the run has ended.
C5_EnginesStopped ==
    /\ \A e \in started : BatchOver(e) => (e \in stopped /\ e \notin alive)
    /\ pc \in {"done", "failed", "returned"} => alive = {}

C5_Witness ==
    /\ pc = "done"
    /\ \E e \in started : IsXrayEngine(e)
    /\ \E e \in started : ~IsXrayEngine(e)
    /\ stopped = started
    /\ alive = {}

XrayAlive == {e \in alive : IsXrayEngine(e)}

HysteriaAlive == {e \in alive : ~IsXrayEngine(e)}

\* C6 as stated: at most one engine process is alive at any moment, the
\* Hysteria clients included.
C6_OneEngineAlive == Cardinality(alive) <= 1

\* C6 amended: at most one Xray engine is alive at any moment and none
\* while a Hysteria client is alive; the Hysteria clients, one per Hysteria
\* entry, may all be alive together.
C6_OneXrayEngineAlive ==
    /\ Cardinality(XrayAlive) <= 1
    /\ HysteriaAlive # {} => XrayAlive = {}
    /\ Cardinality(HysteriaAlive) <= Len(hysteria_items)

C6_Witness ==
    /\ pc = "hprobe"
    /\ Cardinality(HysteriaAlive) >= 2
    /\ \E e \in stopped : IsXrayEngine(e)

HasPort(it) == it.local_port # 0

\* C7: two distinct entries that hold a local port hold different ports; an
\* Xray entry's port is 20800 + its position among the Xray entries (batch
\* start + index in batch), a Hysteria entry's is 20800 + the number of Xray
\* entries + its position.
C7_PortsDistinct ==
    LET x == xray_items
        h == hysteria_items
    IN /\ \A a \in 1..Len(x) : \A b \in 1..Len(x) :
             (a # b /\ HasPort(x[a]) /\ HasPort(x[b])) => x[a].local_port # x[b].local_port
       /\ \A a \in 1..Len(h) : \A b \in 1..Len(h) :
             (a # b /\ HasPort(h[a]) /\ HasPort(h[b])) => h[a].local_port # h[b].local_port
       /\ \A a \in 1..Len(x) : \A b \in 1..Len(h) :
             (HasPort(x[a]) /\ HasPort(h[b])) => x[a].local_port # h[b].local_port
       /\ \A a \in 1..Len(x) : HasPort(x[a]) => x[a].local_port = 20800 + (a - 1)
       /\ \A b \in 1..Len(h) : HasPort(h[b]) => h[b].local_port = 20800 + Len(x) + (b - 1)

C7_Witness ==
    /\ Len(xray_items) >= 2
    /\ HasPort(xray_items[1]) /\ HasPort(xray_items[2])
    /\ hysteria_items # <<>>
    /\ HasPort(hysteria_items[1])

FirstIndex(items, k) ==
    CHOOSE j \in 1..Len(items) :
        /\ Key(items[j].params) = k
        /\ \A j2 \in 1..(j - 1) : Key(items[j2].params) # k

\* C10: deduplication keeps for each identity key the first-seen entry, in
\* input order; the output is no longer than the input, holds no identity
\* key twice, and deduplicating it again changes nothing.  Stated of the
\* lists as lines 245-260 leave them (they are not changed afterwards).
C10_DedupFirstSeen ==
    LET c == configs_with_uris
        u == unique_items
    IN pc = "binaries" =>
       /\ Len(u) <= Len(c)
       /\ \A n \in 1..Len(u) : \A m \in 1..Len(u) :
             n # m => Key(u[n].params) # Key(u[m].params)
       /\ \A j \in 1..Len(c) : HasKey(u, Key(c[j].params))
       /\ \A n \in 1..Len(u) :
             /\ HasKey(c, Key(u[n].params))
             /\ u[n] = c[FirstIndex(c, Key(u[n].params))]
       /\ \A n \in 1..Len(u) : \A m \in 1..Len(u) :
             n < m => FirstIndex(c, Key(u[n].params)) < FirstIndex(c, Key(u[m].params))
       /\ Dedup(u) = u

C10_Witness ==
    /\ pc = "binaries"
    /\ Len(unique_items) = 2
    /\ Len(configs_with_uris) = 3
    /\ unique_items[1].original_uri = UriA

\* the outcomes collected for a port so far
OutcomesOf(port) == {r \in probe_log : r[1] = port}

NoDuplicates(q) == \A a \in 1..Len(q) : \A b \in 1..Len(q) : a # b => q[a] # q[b]

\* C11: no entry is probed by more than one task (a port is submitted once,
\* and is waiting, running or done, never two of these); when the probing of
\* a pool has finished every entry of its plan has exactly one outcome; and
\* the collected descriptors are one per kept outcome, so at most one per
\* deduplicated entry.
C11_OneOutcomePerEntry ==
    /\ pc \in {"xprobe", "hprobe"} =>
          /\ NoDuplicates(queued)
          /\ Range(queued) \cap running = {}
          /\ Range(queued) \cap done = {}
          /\ running \cap done = {}
          /\ PoolPorts = PortsOf(PoolItems)
          /\ Len(PoolItems) = Cardinality(PoolPorts)
          /\ \A port \in Range(queued) \cup running : OutcomesOf(port) = {}
          /\ PoolFinished => \A port \in PortsOf(PoolItems) : Cardinality(OutcomesOf(port)) = 1
    /\ \A r \in probe_log : Cardinality(OutcomesOf(r[1])) = 1
    /\ Len(final_uris_to_write) = Cardinality({r \in probe_log : r[2] # NoneUri})
    /\ Len(final_uris_to_write) <= Len(unique_items)

C11_Witness ==
    /\ pc = "xprobe" /\ PoolFinished
    /\ Len(items_to_test_in_batch) = 2
    /\ \E p1 \in done : \E p2 \in done :
          /\ <<p1, NoneUri>> \in probe_log
          /\ \E r \in probe_log : r[1] = p2 /\ r[2] # NoneUri

\* C12: never more than MAX_WORKERS probes (check_one_proxy calls) run at the
\* same time, in an Xray batch's pool and in the Hysteria group's pool alike.
C12_AtMostMaxWorkers ==
    /\ Cardinality(running) <= MAX_WORKERS
    /\ running # {} => pc \in {"xprobe", "hprobe"}

C12_Witness ==
    /\ pc = "hprobe"
    /\ Cardinality(running) = MAX_WORKERS
    /\ queued # <<>>

\* what one step may do to the pool
C13_Step ==
    /\ \A r \in probe_log : r \in probe_log'
    /\ Len(final_uris_to_write') >= Len(final_uris_to_write)
    /\ SubSeq(final_uris_to_write', 1, Len(final_uris_to_write)) = final_uris_to_write
    /\ (pc \in {"xprobe", "hprobe"} /\ probe_log' # probe_log) =>
          \E port \in running :
             /\ \A r \in probe_log' \ probe_log : r[1] = port
             /\ queued' = queued
             /\ running' = running \ {port}
             /\ done' = done \cup {port}
             /\ pc' = pc
    /\ (pc \in {"xprobe", "hprobe"} /\ pc' # pc) =>
          /\ PoolFinished
          /\ \A port \in PortsOf(PoolItems) : OutcomesOf(port) # {}

\* C13: a probe that fails (its outcome is a discard) changes no other
\* entry's outcome: a step records an outcome for one running entry only,
\* never alters or removes a recorded outcome or a collected descriptor, and
\* leaves the waiting and the other running entries as they are; the pool is
\* left only when every entry of its plan has been probed and collected.
C13_FailureIsolated == [][C13_Step]_vars

C13_Witness ==
    /\ pc = "hprobe"
    /\ \E p \in done : <<p, NoneUri>> \in probe_log
    /\ final_uris_to_write # <<>>
    /\ running # {}

\* ------------------------------------------------------------------------
\* Properties of get_ip_details_and_retag (SpecRetag)
\* ------------------------------------------------------------------------
\* the tag a client shows: the "ps" field of a vmess payload, the
\* URL-decoded fragment of any other descriptor
DisplayTag(u) == IF u.enc = "b64" THEN u.tag ELSE Unquote(u.tag)

EndsWith(s, suffix) ==
    Len(s) >= Len(suffix) /\ SubSeq(s, Len(s) - Len(suffix) + 1, Len(s)) = suffix

\* the descriptor forms C14 speaks of: plain with '#tag', vmess with a
\* decodable payload
HasTagForm(u) == u.enc = "b64" \/ (u.enc = "none" /\ u.hash /\ u.scheme # "vmess")

\* C14 as stated: after retagging with c1 and then with c2 the display tag
\* ends in the suffix "::c2", and what precedes that suffix ends in no
\* country suffix (neither "::c1" nor any other): the earlier suffix was
\* replaced, not doubled.
C14_SuffixReplaced ==
    (rtpc = "retag" /\ Len(rt_codes) = 2 /\ HasTagForm(rt_orig)) =>
        LET d == DisplayTag(rt_uri)
            rest == SubSeq(d, 1, Len(d) - 4)
        IN /\ EndsWith(d, CountrySuffix(Upper(rt_codes[2])))
           /\ ~EndsWith(rest, CountrySuffix(Upper(rt_codes[1])))
           /\ StripCountrySuffix(rest) = rest

\* ------------------------------------------------------------------------
\* Order of the steps of check_one_proxy (SpecProbe)
\* ------------------------------------------------------------------------
StepRank(s) == CASE s = "get" -> 1 [] s = "ip" -> 2 [] s = "iran" -> 3 [] s = "geo" -> 4

\* C15: when the connectivity GET fails the entry is discarded and no later
\* step (exit-IP discovery, regional check, geolocation lookup) is made;
\* when it succeeds the steps made come in the order exit-IP discovery,
\* regional check, geolocation lookup, and no geolocation lookup is made for
\* an entry the regional filter discards.
C15_StepsInOrder ==
    Returned =>
        LET st == p_out.steps IN
        /\ st # <<>> /\ st[1] = "get"
        /\ ~p_env.conn => (~Kept /\ st = <<"get">>)
        /\ p_env.conn => (InSeq("ip", st) /\ (iran => InSeq("iran", st)))
        /\ \A a \in 1..Len(st) : \A b \in 1..Len(st) :
              a < b => StepRank(st[a]) < StepRank(st[b])
        /\ (p_env.conn /\ ~Kept) => (iran /\ ~InSeq("geo", st))

C15_Witness ==
    /\ Returned /\ iran /\ loc
    /\ ~p_env.conn
    /\ get_public_ipv4(p_env.ipify) = "ip"
    /\ p_env.geo # GeoFail
    /\ p_out.steps = <<"get">>
    /\ ~Kept

\* ------------------------------------------------------------------------
\* Unparsable input lines (Spec)
\* ------------------------------------------------------------------------
\* the input file without the lines parse_uri rejects
CleanLines == SelectSeq(all_uris, Parses)

\* what check_one_proxy can return for a descriptor it keeps
KeptForms(uri) ==
    {uri} \cup {get_ip_details_and_retag(uri, fetch_country_code(g)) : g \in GeoResp}

\* C16: an unparsable line is dropped and the run goes on; the entries, the
\* local port of every entry and the descriptors written to the output are
\* those of the input file without its unparsable lines.  The lists are
\* compared as lines 245-260 leave them and again when the run has ended;
\* in between the engine lists and ports are compared with unique_items.
C16_UnparsableDropped ==
    LET x == SelectSeq(unique_items, IsXrayItem)
        h == SelectSeq(unique_items, IsHysteriaItem)
    IN /\ pc \in {"binaries", "done"} =>
            /\ configs_with_uris = ParseAll(CleanLines)
            /\ unique_items = Dedup(ParseAll(CleanLines))
       /\ pc \notin {"start", "binaries", "returned"} =>
            /\ Len(xray_items) = Len(x) /\ Len(hysteria_items) = Len(h)
            /\ \A k \in 1..Len(x) :
                  /\ xray_items[k].original_uri = x[k].original_uri
                  /\ HasPort(xray_items[k]) => xray_items[k].local_port = base_port_start + (k - 1)
            /\ \A k \in 1..Len(h) :
                  /\ hysteria_items[k].original_uri = h[k].original_uri
                  /\ HasPort(hysteria_items[k]) =>
                        hysteria_items[k].local_port = base_port_start + Len(x) + (k - 1)
       /\ \A k \in 1..Len(final_uris_to_write) :
             \E n \in 1..Len(unique_items) :
                /\ final_uris_to_write[k].scheme = unique_items[n].original_uri.scheme
                /\ final_uris_to_write[k].body = unique_items[n].original_uri.body
       /\ written =>
             /\ final_file = final_uris_to_write
             /\ \A k \in 1..Len(final_file) :
                   \E n \in 1..Len(unique_items) :
                      final_file[k] \in KeptForms(unique_items[n].original_uri)

C16_Witness ==
    /\ pc = "done" /\ written
    /\ Len(all_uris) = 3
    /\ all_uris[1] = UriGarbage
    /\ all_uris[3] = UriGarbage
    /\ Len(xray_items) = 1
    /\ xray_items[1].local_port = base_port_start
    /\ Len(final_file) = 1

\* ------------------------------------------------------------------------
\* The synthesized engine configuration (Spec)
\* ------------------------------------------------------------------------
\* the positions in xray_items of the batch starting at offset e
BatchSlice(e) == (e + 1)..BatchEnd(xray_items, e)

\* C17: the configuration synthesized for a batch holds, for every entry
\* retained for testing and for no other, one inbound on 127.0.0.1 at the
\* entry's port, one outbound and one rule from inbound-<port> to
\* proxy_out_<port>; the expected ports are the retained entries' ports; the
\* retained entries are the batch's entries whose outbound can be built; an
\* entry whose outbound cannot be built holds no port and is never submitted
\* for probing; an engine is started only for a batch with a buildable entry.
C17_ConfigPerRetainedEntry ==
    LET its == items_to_test_in_batch
        b == builder
    IN /\ Len(b.inbounds) = Len(its) /\ Len(b.outbounds) = Len(its) /\ Len(b.rules) = Len(its)
       /\ \A k \in 1..Len(its) :
             LET port == its[k].local_port IN
             /\ b.inbounds[k].listen = "127.0.0.1"
             /\ b.inbounds[k].port = port
             /\ b.inbounds[k].tag = <<"inbound", port>>
             /\ b.outbounds[k].tag = <<"proxy_out", port>>
             /\ b.rules[k].inboundTag = <<"inbound", port>>
             /\ b.rules[k].outboundTag = <<"proxy_out", port>>
             /\ \A j \in 1..Len(its) : j # k => its[j].local_port # port
       /\ expected_ports = PortsOf(its)
       /\ InXrayBatch =>
             /\ its # <<>>
             /\ its = SelectSeq(SubSeq(xray_items, i + 1, BatchEnd(xray_items, i)),
                                LAMBDA it : CanBuildOutbound(it.params))
       /\ \A k \in 1..Len(xray_items) :
             ~CanBuildOutbound(xray_items[k].params) =>
                /\ ~HasPort(xray_items[k])
                /\ (base_port_start + (k - 1)) \notin submitted
       /\ \A e \in started :
             IsXrayEngine(e) =>
                \E k \in BatchSlice(e) : CanBuildOutbound(xray_items[k].params)

C17_Witness ==
    /\ pc = "xprobe" /\ PoolFinished
    /\ Cardinality(BatchSlice(i)) = 2
    /\ Len(items_to_test_in_batch) = 1
    /\ Len(builder.rules) = 1
    /\ done = expected_ports

\* ------------------------------------------------------------------------
\* Properties of the regional check (SpecCheckHost, SpecProbe)
\* ------------------------------------------------------------------------
CheckHostReturned == chpc = "returned"

\* a node's exchange in which a service call was rate-limited (status 429,
\* limit message) or failed (request error, other exception, API error)
ServiceFailures == {"init429", "initLimit", "initReqExc", "initOtherExc", "initNotOk",
                    "poll429", "pollReqExc", "pollOtherExc"}

\* C18 as stated: when a call made to the service, at submit or at poll, for
\* any node, was rate-limited or failed with an error, the regional check
\* returns None (inconclusive).
C18_FailureInconclusive ==
    (CheckHostReturned /\ \E k \in Range(ch_out.queried) : ch_nodes[k] \in ServiceFailures)
        => ch_out.ret = "None"

\* C19: for a defined exit IP the check returns False (reachable) exactly
\* when the poll result of a node it queried carried a round-trip time; the
\* nodes are queried in list order and a node that reported a round-trip
\* time is the last one queried.
C19_ReachableIffRtt ==
    (CheckHostReturned /\ ch_ip # "None") =>
        LET q == ch_out.queried IN
        /\ ch_out.ret = "False" <=> \E a \in 1..Len(q) : ch_nodes[q[a]] = "pollRtt"
        /\ \A a \in 1..Len(q) : q[a] = a
        /\ \A a \in 1..Len(q) : ch_nodes[q[a]] = "pollRtt" => a = Len(q)

C19_Witness ==
    /\ CheckHostReturned /\ ch_ip = "ip"
    /\ ch_nodes = <<"pollNoRtt", "pollRtt", "poll429">>
    /\ ch_out.queried = <<1, 2>>
    /\ ch_out.ret = "False"

\* C20: with the regional filter on, a successful connectivity probe and no
\* exit IP discovered, no node of the regional service is queried and the
\* entry is kept.
C20_NoExitIpNoRegionalCall ==
    (Returned /\ iran /\ p_env.conn /\ get_public_ipv4(p_env.ipify) = "None") =>
        /\ p_out.exit_ip = "None"
        /\ p_out.queried = <<>>
        /\ Kept

C20_Witness ==
    /\ Returned /\ iran /\ p_env.conn
    /\ p_env.ipify = <<"bad", "exc">>
    /\ p_env.nodes = AllNodes("pollRtt")
    /\ p_out.queried = <<>>
    /\ Kept

\* ------------------------------------------------------------------------
\* The readiness poller and termination (SpecFair)
\* ------------------------------------------------------------------------
\* main() has returned or ended with an exception
Terminated == pc \in {"done", "returned", "failed"}

\* the step is a round of the poller in which the ports were tried
PollerTriedPorts ==
    /\ pc = "poll" /\ i \in alive
    /\ rounds' = rounds + 1 \/ poll_exit' = "all_ready"

C21_Bounded ==
    /\ rounds <= PollBudget
    /\ pc = "poll" => ready_ports # expected_ports

C21_Step ==
    /\ PollerTriedPorts =>
          /\ rounds < PollBudget
          /\ ports_to_check' \cap ready_ports = {}
          /\ ready_ports \subseteq ready_ports'
          /\ (ready_ports' \ ready_ports) \subseteq ports_to_check'
    /\ (pc = "poll" /\ ready_ports' # ready_ports) => PollerTriedPorts
    /\ (pc = "poll" /\ i \notin alive) => pc' # "poll"
    /\ (pc = "poll" /\ ready_ports' = expected_ports) => pc' # "poll"

\* C21: the readiness poller makes at most PollBudget (40) rounds per batch;
\* a round tries no port already marked ready; polling is left in the round
\* that finds all expected ports ready and in the round that finds the
\* engine not running; and, every step that is possible being taken in the
\* end, every run of the pipeline terminates.
C21_PollerBoundedRunEnds ==
    /\ []C21_Bounded
    /\ [][C21_Step]_vars
    /\ <>Terminated

C21_Witness ==
    /\ pc = "submit"
    /\ poll_exit = "all_ready"
    /\ rounds = PollBudget - 1
    /\ Cardinality(expected_ports) = 2
    /\ Cardinality(ports_to_check) = 1

====
